---- MODULE Spec2Model ----
(***************************************************************************)
(* State-machine model of OfflineService<T> (the abstract caching service) *)
(* together with the ConnectivityService signal it subscribes to and the   *)
(* SQLite table it keeps.  One getItem call is a chain of asynchronous     *)
(* steps (expiration delete, select, remote getApi, inserts); each step    *)
(* that settles is one action, so that calls interleave as the event loop  *)
(* lets them.                                                              *)
(***************************************************************************)
EXTENDS Integers, Sequences, FiniteSets, TLC

\* ---------------------------------------------------------------- bounds
\* number of getItem calls made on the service instance
MaxCalls == 2
\* longest id list passed to getItem
MaxIds == 2
\* largest value of the global `length` (window.length, the frame count)
MaxFrames == 1
\* the clock runs over StartTime + k * invalidationInterval + j
MaxIntervals == 1
MaxJitter == 1
\* Date.getTime() when the service is constructed (epoch milliseconds)
StartTime == 100000

\* ------------------------------------------------------ program constants
\* private invalidationInterval:number = 5000
invalidationInterval == 5000
\* OfflineListingService.getTtl() returns 180
ListingTtl == 180
\* the "never expires" ttl
NeverExpires == -1

Ids == {"a", "b"}
Calls == 1..MaxCalls
IdLists == UNION {[1..n -> Ids] : n \in 0..MaxIds}
\* the instants the clock takes: around each multiple of the interval, and one
\* time-to-live before the first instant at which the next sweep can run
Instants ==
    {StartTime + k * invalidationInterval + j : k \in 0..MaxIntervals, j \in 0..MaxJitter}
        \cup {StartTime + k * invalidationInterval + MaxJitter - ListingTtl :
                 k \in 1..MaxIntervals}
TtlChoices == {ListingTtl, NeverExpires}

VARIABLES
    now,                \* the wall clock, new Date().getTime()
    length,             \* the global `length` the read loop compares against
    timeToLive,         \* what getTtl() returns for this kind
    lastInvalidation,   \* OfflineService.lastInvalidation
    isOnline,           \* OfflineService.isOnline
    database,           \* TRUE once this.database has been assigned
    createPending,      \* the create-table statement is in flight
    tableExists,        \* the kind's table exists in stoffline.db
    table,              \* the rows of the kind's table
    call,               \* per getItem call: its position and what it has done
    appIsOnline,        \* ConnectivityService.appIsOnline: an observable, or left undefined
    inval               \* the invalidate / invalidateAll operation and its position

vars ==
    <<now, length, timeToLive, lastInvalidation, isOnline, database, createPending,
      tableExists, table, call, appIsOnline, inval>>

\* ---------------------------------------------------------------- helpers
Range(s) == {s[i] : i \in 1..Len(s)}

Min(x, y) == IF x < y THEN x ELSE y

\* all the orders in which the rows of a set can come back from a select
Orderings(S) ==
    {s \in [1..Cardinality(S) -> S] : \A i, j \in 1..Cardinality(S) : s[i] = s[j] => i = j}

\* getId(element)
getId(element) == element.id

\* the entity the backend holds for an id when call c asks for it
RemoteEntity(c, i) == [id |-> i, rev |-> c]

\* a fixed enumeration of the ids, the order the backend answers in
IdOrder == CHOOSE s \in [1..Cardinality(Ids) -> Ids] : Range(s) = Ids

IdleCall ==
    [pc |-> "idle", ids |-> <<>>, startedAt |-> 0, swept |-> FALSE, rows |-> <<>>,
     emitted |-> <<>>, needIds |-> <<>>, sampled |-> "unsampled", ttl |-> 0,
     read |-> "none", remote |-> "none", rc |-> <<>>, writes |-> <<>>,
     missed |-> {}, afterInvalidateAll |-> FALSE]

\* the invalidation operation before it is called
\* (online: the service has been reachable since the invalidation completed)
IdleInvalidation == [pc |-> "idle", target |-> "none", online |-> FALSE]

\* ConnectivityService's constructor: without the browser's online API it logs
\* and returns before appIsOnline is assigned
ConnectivityConstructor(hasApi) == IF hasApi THEN "observable" ELSE "undefined"

\* OfflineService's constructor subscribes to service.appIsOnline (line 46): with
\* the member left undefined the constructor throws and there is no service
Constructed == appIsOnline # "undefined"

\* ------------------------------------------------------------------- SQL
\* a delete that also takes the rows expiring at the very instant of the sweep
ExpiredInclusive(row, t) == row.ttl # -1 /\ row.ttl <= t

\* sqlDeleteExpired: WHERE ttl <> -1 and ttl < ?
Expired(row, t) == row.ttl # -1 /\ row.ttl < t

DeleteExpired(rows, t) == {r \in rows : ~Expired(r, t)}

\* sqlGetElements: where id in (?)
SelectElements(rows, ids) == {r \in rows : r.id \in Range(ids)}

\* sqlAddElement is a plain insert into a table whose id is the PRIMARY KEY:
\* it is rejected when a row with that id exists
InsertAccepted(rows, row) == \A r \in rows : r.id # row.id

AddElement(rows, row) == rows \cup {row}

\* sqlDeleteAll: DELETE FROM <typePrefix>
DeleteAll(rows) == {}

\* sqlDeleteId: DELETE FROM <typePrefix> where id = ?
DeleteId(rows, id) == {r \in rows : r.id # id}

\* ------------------------------------------------------------ getItem logic
\* a throttle that lets a call exactly one interval after the last sweep through
ThrottleOpenInclusive(last, t) == last + invalidationInterval <= t

\* removeExpired: if(this.lastInvalidation + this.invalidationInterval < now)
ThrottleOpen(last, t) == last + invalidationInterval < t

\* const needIds = ids.filter(x => !haveIds.includes(x))
NeedIds(ids, haveIds) == SelectSeq(ids, LAMBDA x : x \notin Range(haveIds))

\* a decision that forgets the connectivity flag
ShouldFetchIgnoringConnectivity(needIds, online) == Len(needIds) > 0

\* a decision written with || where the code has &&
ShouldFetchOr(needIds, online) == Len(needIds) > 0 \/ online

\* if(needIds.length > 0 && this.isOnline)
ShouldFetch(needIds, online) == Len(needIds) > 0 /\ online

\* what the && reads of the connectivity flag
Sampled(needIds, online) ==
    IF Len(needIds) = 0 THEN "unsampled" ELSE IF online THEN "online" ELSE "offline"

\* const ttl = this.getTtl() === -1 ? -1 : this.getTtl() + now
ExpiresAt(ttlCfg, t) == IF ttlCfg = -1 THEN -1 ELSE ttlCfg + t

\* a .catch that hands the failure to the observer instead
ReadFailureRethrown == "error"

\* a forEach that looks at the connectivity flag again for every element
DeliveredWhileOnline(rc, online) == IF online THEN rc ELSE <<>>

\* rc.forEach(element => { obs.next(element); ...insert... }): every element
\* of rc is sent on and written, whatever the connectivity flag has become
Delivered(rc, online) == rc

\* executeSql(...).catch(e => e): the promise is fulfilled either way, from()
\* emits, and the next callback issues the select
AfterSweepPc(ok) == "read"

\* the .catch of the select chain: log, then obs.complete()
ReadFailurePc == "done"

\* a completion that is only reached from the callback of a write
PromiseAllSettledNonEmpty(writes) ==
    /\ Len(writes) > 0
    /\ \/ \A i \in 1..Len(writes) : writes[i].st = "ok"
       \/ \E i \in 1..Len(writes) : writes[i].st \in {"failed", "conflict"}

\* Promise.all(promises) has settled: every write fulfilled, or one rejected
PromiseAllSettled(writes) ==
    \/ \A i \in 1..Len(writes) : writes[i].st = "ok"
    \/ \E i \in 1..Len(writes) : writes[i].st \in {"failed", "conflict"}

\* a chain that completes on fulfilment and reports a rejection as an error
FinallyPcErrorOnRejection(writes) ==
    IF \E i \in 1..Len(writes) : writes[i].st \in {"failed", "conflict"}
    THEN "error" ELSE "done"

\* .finally(() => obs.complete()) runs on fulfilment and on rejection alike
FinallyPc(writes) == "done"

\* getApi(needIds).subscribe(next) has no error callback: the error is
\* reported to the host and the outer observer hears nothing
RemoteErrorPc == "remoteError"

\* ------------------------------------------------------------------ Init
Init ==
    /\ now = StartTime
    /\ length \in 0..MaxFrames
    /\ timeToLive \in TtlChoices
    /\ lastInvalidation = 0
    /\ \E hasApi \in BOOLEAN : appIsOnline = ConnectivityConstructor(hasApi)
    /\ isOnline \in (IF Constructed THEN BOOLEAN ELSE {FALSE})
    /\ inval = IdleInvalidation
    /\ database = FALSE
    /\ createPending = FALSE
    /\ tableExists = FALSE
    /\ table = {}
    /\ call = [c \in Calls |-> IdleCall]

\* --------------------------------------------------------------- actions
\* time passes
Tick ==
    /\ \E t \in Instants : t > now /\ now' = t
    /\ UNCHANGED <<length, timeToLive, lastInvalidation, isOnline, database,
                   createPending, tableExists, table, call, appIsOnline, inval>>

\* service.appIsOnline emits navigator.onLine after an online/offline event
ConnectivityChange ==
    /\ Constructed
    /\ isOnline' = ~isOnline
    /\ inval' = IF inval.pc = "done" THEN [inval EXCEPT !.online = TRUE] ELSE inval
    /\ UNCHANGED <<now, length, timeToLive, lastInvalidation, database, createPending,
                   tableExists, table, call, appIsOnline>>

\* the page gains or loses a frame: window.length, which the bare identifier
\* `length` of the read loop resolves to, changes
FramesChange ==
    /\ \E n \in 0..MaxFrames : n # length /\ length' = n
    /\ UNCHANGED <<now, timeToLive, lastInvalidation, isOnline, database, createPending,
                   tableExists, table, call, appIsOnline, inval>>

\* this.sqlite.create(...).then(db => { this.database = db; db.executeSql(create table) })
DbOpen ==
    /\ Constructed
    /\ ~database
    /\ database' = TRUE
    /\ createPending' = TRUE
    /\ UNCHANGED <<now, length, timeToLive, lastInvalidation, isOnline, tableExists,
                   table, call, appIsOnline, inval>>

\* the create-table statement settles; a failure is caught and logged
CreateTableSettle ==
    /\ createPending
    /\ createPending' = FALSE
    /\ \E ok \in BOOLEAN : tableExists' = (tableExists \/ ok)
    /\ UNCHANGED <<now, length, timeToLive, lastInvalidation, isOnline, database,
                   table, call, appIsOnline, inval>>

\* getItem(ids) is subscribed: removeExpired() runs synchronously
Start(c, l) ==
    /\ Constructed
    /\ call[c].pc = "idle"
    /\ IF c = 1 THEN TRUE ELSE call[c - 1].pc # "idle"
    /\ IF ThrottleOpen(lastInvalidation, now)
       THEN /\ lastInvalidation' = now
            /\ call' = [call EXCEPT ![c] =
                 [@ EXCEPT !.ids = l, !.startedAt = now,
                           !.pc = IF database THEN "sweep" ELSE "error",
                           !.swept = database,
                           !.afterInvalidateAll =
                               (inval.pc = "done" /\ inval.target = "all" /\ ~isOnline)]]
       ELSE /\ lastInvalidation' = lastInvalidation
            /\ call' = [call EXCEPT ![c] =
                 [@ EXCEPT !.ids = l, !.startedAt = now, !.pc = "throttled",
                           !.afterInvalidateAll =
                               (inval.pc = "done" /\ inval.target = "all" /\ ~isOnline)]]
    /\ UNCHANGED <<now, length, timeToLive, isOnline, database, createPending,
                   tableExists, table, appIsOnline, inval>>

\* the expiration delete settles (a rejection is caught and turned into a value);
\* from(promise) then calls next, which issues the select
SweepSettle(c) ==
    /\ call[c].pc = "sweep"
    /\ \E ok \in BOOLEAN :
         LET done == ok /\ tableExists
             kept == DeleteExpired(table, call[c].startedAt)
         IN  /\ table' = IF done THEN kept ELSE table
             /\ call' = [call EXCEPT ![c] =
                  [@ EXCEPT !.pc = AfterSweepPc(done),
                            !.missed = IF done THEN {} ELSE table \ kept]]
    /\ UNCHANGED <<now, length, timeToLive, lastInvalidation, isOnline, database,
                   createPending, tableExists, appIsOnline, inval>>

\* the select is rejected: .catch logs and completes
ReadFail(c) ==
    /\ call[c].pc = "read"
    /\ call' = [call EXCEPT ![c].pc = ReadFailurePc, ![c].read = "failed"]
    /\ UNCHANGED <<now, length, timeToLive, lastInvalidation, isOnline, database,
                   createPending, tableExists, table, appIsOnline, inval>>

\* the select is fulfilled: the read loop, then the decision to fetch
ReadOk(c) ==
    /\ call[c].pc = "read"
    /\ tableExists
    /\ \E rows \in Orderings(SelectElements(table, call[c].ids)) :
         LET n == Len(rows)
             k == Min(length, n)
             got == [i \in 1..k |-> rows[i].element]
             haveIds == [i \in 1..k |-> getId(got[i])]
             need == NeedIds(call[c].ids, haveIds)
         IN  IF length > n
             THEN \* res.rows.item(i) is undefined: the TypeError lands in .catch
                  call' = [call EXCEPT ![c] =
                     [@ EXCEPT !.rows = rows, !.emitted = got, !.pc = ReadFailurePc,
                               !.read = "threw"]]
             ELSE IF ShouldFetch(need, isOnline)
             THEN call' = [call EXCEPT ![c] =
                     [@ EXCEPT !.read = "ok", !.rows = rows, !.emitted = got,
                               !.needIds = need,
                               !.sampled = Sampled(need, isOnline),
                               !.ttl = ExpiresAt(timeToLive, now),
                               !.remote = "pending", !.pc = "fetch"]]
             ELSE call' = [call EXCEPT ![c] =
                     [@ EXCEPT !.read = "ok", !.rows = rows, !.emitted = got,
                               !.needIds = need,
                               !.sampled = Sampled(need, isOnline),
                               !.pc = "done"]]
    /\ UNCHANGED <<now, length, timeToLive, lastInvalidation, isOnline, database,
                   createPending, tableExists, table, appIsOnline, inval>>

\* getApi(needIds) errors
FetchError(c) ==
    /\ call[c].pc = "fetch"
    /\ call' = [call EXCEPT ![c].pc = RemoteErrorPc, ![c].remote = "error"]
    /\ UNCHANGED <<now, length, timeToLive, lastInvalidation, isOnline, database,
                   createPending, tableExists, table, appIsOnline, inval>>

\* getApi(needIds) emits rc: every element is sent on and its insert is issued
FetchOk(c) ==
    /\ call[c].pc = "fetch"
    /\ \E S \in SUBSET Range(call[c].needIds) :
         LET order == SelectSeq(IdOrder, LAMBDA i : i \in S)
             rc == [i \in 1..Len(order) |-> RemoteEntity(c, order[i])]
             sent == Delivered(rc, isOnline)
             ws == [i \in 1..Len(sent) |->
                      [row |-> [id |-> getId(sent[i]), ttl |-> call[c].ttl,
                                element |-> sent[i]],
                       st |-> "pending"]]
         IN  call' = [call EXCEPT ![c] =
                 [@ EXCEPT !.remote = "ok", !.rc = rc, !.emitted = @ \o sent,
                           !.writes = ws,
                           !.pc = IF PromiseAllSettled(ws) THEN FinallyPc(ws) ELSE "write"]]
    /\ UNCHANGED <<now, length, timeToLive, lastInvalidation, isOnline, database,
                   createPending, tableExists, table, appIsOnline, inval>>

\* the i-th insert of call c settles: fulfilled, rejected for the primary key,
\* or rejected by the storage engine for another reason
WriteSettle(c, i) ==
    /\ call[c].pc \in {"write", "done"}
    /\ i \in 1..Len(call[c].writes)
    /\ call[c].writes[i].st = "pending"
    /\ LET row == call[c].writes[i].row
       IN  \E ok \in BOOLEAN :
             LET st == IF ~ok \/ ~tableExists THEN "failed"
                       ELSE IF InsertAccepted(table, row) THEN "ok" ELSE "conflict"
                 ws == [call[c].writes EXCEPT ![i].st = st]
                 completes == call[c].pc = "write" /\ PromiseAllSettled(ws)
             IN  /\ table' = IF st = "ok" THEN AddElement(table, row) ELSE table
                 /\ call' = [call EXCEPT ![c] =
                      [@ EXCEPT !.writes = ws,
                                !.pc = IF completes THEN FinallyPc(ws) ELSE @]]
    /\ UNCHANGED <<now, length, timeToLive, lastInvalidation, isOnline, database,
                   createPending, tableExists, appIsOnline, inval>>

Next ==
    \/ Tick
    \/ ConnectivityChange
    \/ FramesChange
    \/ DbOpen
    \/ CreateTableSettle
    \/ \E c \in Calls, l \in IdLists : Start(c, l)
    \/ \E c \in Calls : SweepSettle(c)
    \/ \E c \in Calls : ReadFail(c)
    \/ \E c \in Calls : ReadOk(c)
    \/ \E c \in Calls : FetchError(c)
    \/ \E c \in Calls : FetchOk(c)
    \/ \E c \in Calls, i \in 1..MaxIds : WriteSettle(c, i)

Spec == Init /\ [][Next]_vars

\* invalidateAll() / invalidate(id): executeSql is called at once, on whatever
\* this.database is; from(promise) hands the outcome to the caller
InvalidateStart(target) ==
    /\ Constructed
    /\ inval.pc = "idle"
    /\ inval' = [inval EXCEPT !.pc = IF database THEN "pending" ELSE "threw",
                              !.target = target]
    /\ UNCHANGED <<now, length, timeToLive, lastInvalidation, isOnline, database,
                   createPending, tableExists, table, call, appIsOnline>>

\* the delete of the invalidation settles
InvalidateSettle ==
    /\ inval.pc = "pending"
    /\ \E ok \in BOOLEAN :
         LET done == ok /\ tableExists
         IN  /\ table' = IF ~done THEN table
                         ELSE IF inval.target = "all" THEN DeleteAll(table)
                         ELSE DeleteId(table, inval.target)
             /\ inval' = [inval EXCEPT !.pc = IF done THEN "done" ELSE "failed",
                                       !.online = isOnline]
    /\ UNCHANGED <<now, length, timeToLive, lastInvalidation, isOnline, database,
                   createPending, tableExists, call, appIsOnline>>

NextInvalidation ==
    \/ Next
    \/ \E target \in {"all"} \cup Ids : InvalidateStart(target)
    \/ InvalidateSettle

\* a fresh install of a kind whose entries never expire, on a platform with
\* the online API
InitInvalidation ==
    /\ Init
    /\ timeToLive = NeverExpires
    /\ Constructed

\* the service with its invalidation operations called as well
SpecInvalidation == InitInvalidation /\ [][NextInvalidation]_vars

\* ------------------------------------------------------- claim vocabulary
Started(c) == call[c].pc # "idle"

\* an operation the call has issued is still in flight
Outstanding(c) == call[c].pc \in {"sweep", "read", "fetch", "write"}

\* the caller has been told the stream is over
Terminated(c) == call[c].pc \in {"done", "error"}

\* the select of the call was fulfilled and the read loop ran to its end
ReadLoopRan(c) == call[c].read = "ok"

LocalElements(c) == {call[c].rows[i].element : i \in 1..Len(call[c].rows)}

LocalIds(c) == {call[c].rows[i].id : i \in 1..Len(call[c].rows)}

Unexpired(row, t) == row.ttl = -1 \/ row.ttl >= t

\* C1: every started getItem call runs to completion: as long as it has not
\* signalled the end of its stream it has an operation in flight whose
\* settling moves it on, whether its sweep ran or was throttled.
C1_RunsToCompletion ==
    \A c \in Calls : Started(c) => (Terminated(c) \/ Outstanding(c))

\* C2: when every requested id is present and unexpired in storage at the
\* read, the call emits exactly the stored entities and issues no remote fetch.
C2_AllCachedServedLocally ==
    \A c \in Calls :
        (/\ ReadLoopRan(c)
         /\ Range(call[c].ids) \subseteq LocalIds(c)
         /\ \A i \in 1..Len(call[c].rows) : Unexpired(call[c].rows[i], call[c].startedAt))
        => (/\ call[c].remote = "none"
            /\ Len(call[c].emitted) = Len(call[c].rows)
            /\ Range(call[c].emitted) = LocalElements(c))

C4_OnlineEmitsLocalAndFetchedAndPersists ==
    \A c \in Calls :
        (call[c].sampled = "online" /\ call[c].remote = "ok")
        => (/\ Range(call[c].emitted) = LocalElements(c) \cup Range(call[c].rc)
            /\ Len(call[c].writes) = Len(call[c].rc)
            /\ \A i \in 1..Len(call[c].rc) :
                 /\ call[c].writes[i].row.id = getId(call[c].rc[i])
                 /\ call[c].writes[i].row.element = call[c].rc[i]
                 /\ call[c].writes[i].row.ttl = call[c].ttl
            /\ IF timeToLive = -1 THEN call[c].ttl = -1
               ELSE call[c].ttl - timeToLive \in call[c].startedAt..now)

\* C5: completion is signalled only after every insert of the batch has
\* settled: no completed call has an insert still in flight.
C5_CompleteOnlyAfterAllWritesSettle ==
    \A c \in Calls :
        call[c].pc = "done" => \A i \in 1..Len(call[c].writes) : call[c].writes[i].st # "pending"

\* C6: when getApi errors, the call ends with an error delivered to its caller.
C6_RemoteErrorFailsCall ==
    \A c \in Calls : call[c].remote = "error" => call[c].pc = "error"

\* C7: when the select fails the call completes normally, with nothing
\* emitted, no getApi call and no insert.
C7_ReadFailureCompletesEmpty ==
    \A c \in Calls :
        call[c].read = "failed"
        => (/\ call[c].pc = "done"
            /\ call[c].emitted = <<>>
            /\ call[c].sampled = "unsampled"
            /\ call[c].remote = "none"
            /\ call[c].rc = <<>>
            /\ call[c].writes = <<>>)

C7_Witness ==
    \E c \in Calls :
        /\ call[c].read = "failed"
        /\ call[c].ids # <<>>
        /\ isOnline
        /\ tableExists

\* C8: a failed insert does not fail the call: the entity whose insert failed
\* has been emitted, every sibling insert stays issued and still settles, and
\* the call ends with completion, not an error.
C8_WriteFailureIsNotFatal ==
    \A c \in Calls : \A i \in 1..Len(call[c].writes) :
        call[c].writes[i].st \in {"failed", "conflict"}
        => (/\ call[c].pc = "done"
            /\ call[c].writes[i].row.element \in Range(call[c].emitted)
            /\ Len(call[c].writes) = Len(call[c].rc)
            /\ \A j \in 1..Len(call[c].writes) :
                 call[c].writes[j].st = "pending" => ENABLED WriteSettle(c, j))

C8_Witness ==
    \E c \in Calls : \E i, j \in 1..Len(call[c].writes) :
        /\ call[c].writes[i].st \in {"failed", "conflict"}
        /\ call[c].writes[j].st = "ok"
        /\ call[c].writes[j].row \in table
        /\ call[c].pc = "done"

\* C9: an insert for an id that already has a row overwrites it: no id ever
\* has two rows, and no insert is rejected because its id is already stored.
C9_WriteOverwritesExistingRow ==
    /\ \A x \in Ids : Cardinality({r \in table : r.id = x}) <= 1
    /\ \A c \in Calls : \A i \in 1..Len(call[c].writes) : call[c].writes[i].st # "conflict"

\* C10: two getItem calls started within invalidationInterval milliseconds
\* of each other issue at most one expiration delete between them.
C10_AtMostOnePurgePerInterval ==
    \A c1, c2 \in Calls :
        (/\ c1 # c2
         /\ Started(c1) /\ Started(c2)
         /\ call[c2].startedAt - call[c1].startedAt \in 0..invalidationInterval)
        => ~(call[c1].swept /\ call[c2].swept)

C10_Witness ==
    \E c1, c2 \in Calls :
        /\ call[c1].swept /\ call[c1].pc = "sweep"
        /\ call[c2].pc = "throttled"
        /\ call[c2].startedAt = call[c1].startedAt + invalidationInterval

\* a step of call c
Steps(c) == call'[c] # call[c]

\* C11 (as stated): getItem with an empty id list has no side effects: no step
\* of such a call changes lastInvalidation or the table.
C11_EmptyIdsNoSideEffects ==
    [][\A c \in Calls :
         (Steps(c) /\ call'[c].ids = <<>>)
         => (lastInvalidation' = lastInvalidation /\ table' = table)]_vars

\* C11 (amended): getItem with an empty id list emits nothing, calls getApi
\* never and issues no insert; its expiration sweep still runs.
C11_EmptyIdsEmitNothing ==
    \A c \in Calls :
        (Started(c) /\ call[c].ids = <<>>)
        => (/\ call[c].emitted = <<>>
            /\ call[c].needIds = <<>>
            /\ call[c].remote = "none"
            /\ call[c].writes = <<>>)

C11_Witness ==
    \E c \in Calls :
        /\ call[c].ids = <<>>
        /\ call[c].pc = "done"
        /\ call[c].read = "ok"
        /\ call[c].swept
        /\ lastInvalidation = call[c].startedAt
        /\ isOnline

FetchedIds(c) == {getId(call[c].rc[i]) : i \in 1..Len(call[c].rc)}

\* the ids getApi was asked for and did not return
DroppedIds(c) == Range(call[c].needIds) \ FetchedIds(c)

\* C13: an id that is neither cached nor returned by getApi is dropped
\* silently: nothing is emitted for it, no insert is issued for it, getApi is
\* not asked again, and the call completes normally, also when getApi
\* returns nothing at all.
C13_UnreturnedIdsDropped ==
    \A c \in Calls :
        call[c].remote = "ok"
        => (/\ \A x \in DroppedIds(c) :
                 /\ \A i \in 1..Len(call[c].emitted) : getId(call[c].emitted[i]) # x
                 /\ \A i \in 1..Len(call[c].writes) : call[c].writes[i].row.id # x
            /\ Len(call[c].writes) = Len(call[c].rc)
            /\ call[c].pc \in {"write", "done"}
            /\ (\A i \in 1..Len(call[c].writes) : call[c].writes[i].st # "pending")
               => call[c].pc = "done")

C13_Witness ==
    \E c1, c2 \in Calls :
        /\ call[c1].remote = "ok" /\ call[c1].pc = "done"
        /\ Len(call[c1].rc) = 1 /\ DroppedIds(c1) # {}
        /\ call[c1].writes[1].st = "ok"
        /\ \A r \in table : r.id \notin DroppedIds(c1)
        /\ call[c2].remote = "ok" /\ call[c2].pc = "done"
        /\ call[c2].rc = <<>> /\ call[c2].needIds # <<>>

\* the step in which getItem is subscribed and removeExpired() runs
StartStep(c) == call[c].pc = "idle" /\ call'[c].pc # "idle"

\* C16 (as stated): the sweep runs if and only if
\* now - lastInvalidation >= invalidationInterval; otherwise the table and
\* lastInvalidation are left alone.
C16_SweepIffAtLeastInterval ==
    [][\A c \in Calls :
         StartStep(c)
         => IF now - lastInvalidation >= invalidationInterval
            THEN lastInvalidation' = now /\ (call'[c].swept <=> database)
            ELSE lastInvalidation' = lastInvalidation /\ ~call'[c].swept /\ table' = table]_vars

\* C16 (amended): the sweep runs if and only if
\* now - lastInvalidation > invalidationInterval: a call exactly one interval
\* after the last sweep does not sweep; a call that does not sweep leaves the
\* table and lastInvalidation alone.
C16_SweepIffMoreThanInterval ==
    [][\A c \in Calls :
         StartStep(c)
         => IF now - lastInvalidation > invalidationInterval
            THEN lastInvalidation' = now /\ (call'[c].swept <=> database)
            ELSE lastInvalidation' = lastInvalidation /\ ~call'[c].swept /\ table' = table]_vars

C16_Witness ==
    \E c1, c2 \in Calls :
        /\ call[c1].swept /\ call[c1].pc = "done"
        /\ lastInvalidation = call[c1].startedAt
        /\ call[c2].startedAt = lastInvalidation + invalidationInterval
        /\ call[c2].pc = "throttled" /\ ~call[c2].swept

\* C18: a call reads the connectivity flag once, in the callback of its
\* select: the value at that moment decides whether getApi is called; a
\* change of the flag is no step of any call, and after the decision neither
\* the fetch nor what is emitted and written depends on the flag.
C18_ConnectivitySampledOnce ==
    [][\A c \in Calls :
         /\ call[c].pc # "read" => call'[c].sampled = call[c].sampled
         /\ (call[c].pc = "read" /\ call'[c].read = "ok" /\ call'[c].needIds # <<>>)
            => /\ call'[c].sampled = (IF isOnline THEN "online" ELSE "offline")
               /\ (call'[c].remote = "pending") <=> isOnline
         /\ isOnline' # isOnline => call' = call
         /\ call[c].sampled = "offline" => call'[c] = call[c]
         /\ (call[c].sampled = "online" /\ call'[c].remote = "ok")
            => /\ \A i \in 1..Len(call'[c].rc) : call'[c].rc[i] \in Range(call'[c].emitted)
               /\ Len(call'[c].writes) = Len(call'[c].rc)]_vars

C18_Witness ==
    \E c \in Calls :
        /\ call[c].sampled = "online"
        /\ ~isOnline
        /\ call[c].remote = "ok"
        /\ Len(call[c].rc) = 2
        /\ call[c].pc = "write"

\* C14: a rejected expiration delete does not fail the call, and the call
\* emits what it would have emitted after a successful sweep: none of the rows
\* the rejected delete left behind is emitted.
C14_SweepFailureSameResult ==
    \A c \in Calls :
        call[c].missed # {}
        => /\ call[c].pc # "error"
           /\ \A r \in call[c].missed : r.element \notin Range(call[c].emitted)

\* C19: every storage operation finds storage initialized: no call meets a
\* missing database handle, no invalidation throws on one, and a call's delete
\* and select are issued on an existing table.
C19_StorageInitializedBeforeUse ==
    /\ \A c \in Calls :
         /\ call[c].pc # "error"
         /\ call[c].pc \in {"sweep", "read"} => tableExists
    /\ inval.pc # "threw"
    /\ inval.pc = "pending" => tableExists

\* C20: every entity a call emits from local storage is unexpired at the
\* call's own time: its ttl is -1 or at least the call's now.
C20_NoExpiredLocalEmission ==
    \A c \in Calls :
        \A i \in 1..Len(call[c].rows) :
            call[c].rows[i].element \in Range(call[c].emitted)
            => Unexpired(call[c].rows[i], call[c].startedAt)

\* C15: on every platform, one without a reachability API included, the
\* connectivity signal is defined, the caching service is constructed, and a
\* service that was never told it is reachable attempts no remote fetch.
C15_SignalDefinedWithoutReachabilityApi ==
    /\ appIsOnline # "undefined"
    /\ Constructed
    /\ \A c \in Calls : call[c].sampled = "offline" => call[c].remote = "none"

\* C12: as long as the service has been unreachable ever since invalidateAll
\* completed, a call made after that completion emits nothing, whatever
\* writes of earlier calls were in flight when invalidateAll completed.
C12_InvalidateAllThenOfflineEmpty ==
    \A c \in Calls :
        (call[c].afterInvalidateAll /\ ~inval.online)
        => call[c].emitted = <<>>

\* C17: the sweep of a call made at time t removes only rows whose ttl is not
\* -1 and is below t: a row with ttl -1 or ttl = t survives every sweep, and
\* after a sweep that succeeded no row with a ttl below t other than -1 is left.
C17_SweepDeletesExactlyExpired ==
    [][\A c \in Calls :
         (call[c].pc = "sweep" /\ call'[c].pc # "sweep")
         => LET t == call[c].startedAt
            IN  /\ table' \subseteq table
                /\ \A r \in table : (r.ttl = -1 \/ r.ttl = t) => r \in table'
                /\ \A r \in table \ table' : r.ttl # -1 /\ r.ttl < t
                /\ call'[c].missed = {}
                   => \A r \in table' : r.ttl = -1 \/ r.ttl >= t]_vars

C17_Witness ==
    \E c \in Calls :
        /\ call[c].swept /\ call[c].pc = "read"
        /\ call[c].missed = {}
        /\ \E r \in table : r.ttl = call[c].startedAt

====
